---- MODULE Spec2Model ----
(***************************************************************************)
(* A model of the locallibrary catalog application: the BookInstance loan  *)
(* lifecycle (renew, mark as returned), the renewal date form and the      *)
(* permission-gated author views.                                          *)
(*                                                                         *)
(* A request arrives (Receive), its handler runs as one step, and its      *)
(* response is delivered (Deliver) before the next request arrives.  Spec  *)
(* is the lifecycle views and the borrowed-books listing over the          *)
(* BookInstance table; SpecLoans is Spec started from copies that have a   *)
(* borrower only while on loan; SpecCatalog adds the creation of copies    *)
(* and the seed command; SpecAuthors is the author views over the Author   *)
(* and Book tables; SpecBooks is the deletion of books next to the         *)
(* creation of copies and the seed command; SpecIndex is the index view    *)
(* and its session counter; SpecConcurrent is two lifecycle requests       *)
(* handled at once, each in a load step and a save step.                   *)
(*                                                                         *)
(* Dates are day ordinals (integers); datetime.timedelta(weeks=w) is 7*w   *)
(* days.  An optional date is a sequence of length at most one: <<>> is    *)
(* Python's None, <<d>> is the date d.  An optional user is a string, with *)
(* "None" for no user.                                                     *)
(***************************************************************************)
EXTENDS Integers, Sequences, FiniteSets, TLC

VARIABLES
    today,          \* datetime.date.today(), a day ordinal
    bookinstances,  \* table catalog_bookinstance: pk -> row
    books,          \* table catalog_book: pk -> row
    authors,        \* table catalog_author: pk -> row
    author_seq,     \* the last primary key the author table's sequence gave out
    book_seq,       \* the last primary key the book table's sequence gave out
    engine,         \* the database backend the tables are stored in
    request,        \* the request being handled, NoRequest between requests
    response,       \* the response to it, NoResponse until the handler has run
    before,         \* history: the tables as they were when the handler started
    streak,         \* history: the copy the last requests marked as returned, and
                    \* how many times in a row they did
    returned,       \* history: the stored copies that were marked as returned
    shadow,         \* history: the copies as the successful requests alone
                    \* leave them
    sessions,       \* the session store: session key -> num_visits
    index_requests, \* history: session key -> the index requests made in it
    workers         \* the requests handled concurrently: worker -> its progress

vars == <<engine, today, bookinstances, books, book_seq, authors, author_seq,
          request, response, before, streak, returned, shadow, sessions,
          index_requests, workers>>

tables == <<bookinstances, books, authors, author_seq, book_seq>>

----------------------------------------------------------------------------
(* Bounds of the model *)

\* The day the requests are made on is one of 0 .. MaxDay.
MaxDay == 1

\* Submitted renewal dates lie within Margin days outside each end of the window.
Margin == 1

\* The history counts up to MaxStreak consecutive returns of one copy.
MaxStreak == 2

\* The index requests made in one session
MaxVisits == 3

\* The author table's sequence gives out the primary keys 1 .. MaxAuthors.
MaxAuthors == 3

\* The book table's sequence gives out the primary keys 1 .. MaxBooks.
MaxBooks == 3

\* A run of the seed command creates SeedAuthors authors and SeedBooks books
\* (10 and 20 in the command).
SeedAuthors == 1
SeedBooks == 1

----------------------------------------------------------------------------
(* catalog/constants.py *)

MAINTENANCE == "m"
ON_LOAN == "o"
AVAILABLE == "a"
RESERVED == "r"

LoanStatus == {MAINTENANCE, ON_LOAN, AVAILABLE, RESERVED}

DEFAULT_RENEWAL_WEEKS == 3
MAX_RENEWAL_WEEKS == 4

\* datetime.timedelta(weeks=w), in days
timedelta_weeks(w) == 7 * w

----------------------------------------------------------------------------
(* Optional values *)

NoDate == <<>>
None == "None"

\* The database backends a deployment stores the tables in.  In an ascending
\* ORDER BY, SQLite and MySQL place NULL before every value, PostgreSQL and
\* Oracle after every value.
Engines == {"sqlite3", "postgresql"}

nulls_first(db) == db = "sqlite3"

----------------------------------------------------------------------------
(* Callers and their permissions *)

\* request.user of a request without a session
AnonymousUser == "AnonymousUser"

\* The users of the auth table: each holds at most one capability.
Users == {"reader", "renewer", "returner", "adder", "changer", "deleter"}

Callers == Users \cup {AnonymousUser}

user_permissions(u) ==
    CASE u = "renewer" -> {"catalog.can_renew"}
      [] u = "returner" -> {"catalog.can_mark_returned"}
      [] u = "adder" -> {"catalog.add_author"}
      [] u = "changer" -> {"catalog.change_author"}
      [] u = "deleter" -> {"catalog.delete_author"}
      [] OTHER -> {}

is_authenticated(u) == u \in Users

has_perm(u, perm) == is_authenticated(u) /\ perm \in user_permissions(u)

----------------------------------------------------------------------------
(* Requests and responses *)

Methods == {"GET", "POST"}

\* The primary keys (UUIDs) of the copies the library holds, and one no copy has.
InstIds == {"uuid-1", "uuid-2"}
MissingPk == "uuid-9"
Pks == InstIds \cup {MissingPk}

\* request.get_full_path(): the URL of a request, as its view and its pk
NoPath == <<>>
get_full_path(req) == <<req.view, req.pk>>

NoLocation == [name |-> "", pk |-> 0, next |-> NoPath]

\* redirect(name, pk=...): the named URL a 302 response points to
redirect(name, pk) == [name |-> name, pk |-> pk, next |-> NoPath]

\* A request: the view its URL routes to, its method, its caller
\* (request.user), the pk of the URL and the renewal_date of the POST body.
HttpRequest(view, method, user, pk, data) ==
    [view |-> view, method |-> method, user |-> user, pk |-> pk, data |-> data]

\* What a handler answers: the status code, the redirect target, and the
\* context the template is rendered with (the instance, the form's error, the
\* form's initial date, for a list view the objects listed and the can_renew
\* or can_add_author flag, for the index the counts and num_visits).
HttpResponse(status, location, instance, error, initial) ==
    [status |-> status, location |-> location,
     instance |-> instance, error |-> error, initial |-> initial,
     object_list |-> <<>>, can_renew |-> FALSE, can_add_author |-> FALSE,
     counts |-> <<>>, num_visits |-> 0]

NoResponse == HttpResponse(0, NoLocation, None, "", NoDate)

\* redirect_to_login(request.get_full_path(), ...): the login page, with the
\* URL that was asked for as its next parameter
redirect_to_login(req) ==
    HttpResponse(302, [name |-> "login", pk |-> 0, next |-> get_full_path(req)],
                 None, "", NoDate)

PermissionDenied == HttpResponse(403, NoLocation, None, "", NoDate)

\* View.http_method_not_allowed: the view class has no handler for the method
HttpResponseNotAllowed == HttpResponse(405, NoLocation, None, "", NoDate)

\* a missing object answered with a rendered page
Http404_rendered == HttpResponse(200, NoLocation, None, "", NoDate)

Http404 == HttpResponse(404, NoLocation, None, "", NoDate)

----------------------------------------------------------------------------
(* Access control: django.contrib.auth decorators and mixins as the views   *)
(* apply them.  Each yields "pass", "login" (redirect to the login page) or *)
(* "forbidden" (PermissionDenied).                                          *)

\* @permission_required(perm, raise_exception=...)
permission_required(u, perm, raise_exception) ==
    IF has_perm(u, perm) THEN "pass"
    ELSE IF raise_exception THEN "forbidden"
    ELSE "login"

\* renew_access without @login_required: the permission decorator alone
renew_access_no_login(u) == permission_required(u, "catalog.can_renew", TRUE)

\* @login_required wrapped around @permission_required("catalog.can_renew",
\* raise_exception=True): the outer decorator runs first.
renew_access(u) ==
    IF ~is_authenticated(u) THEN "login"
    ELSE permission_required(u, "catalog.can_renew", TRUE)

\* handle_no_permission with raise_exception = True
handle_no_permission_raise(u) == "forbidden"

\* AccessMixin.handle_no_permission with raise_exception left False
handle_no_permission(u) ==
    IF is_authenticated(u) THEN "forbidden" ELSE "login"

\* a view without the login mixin
LoginRequiredMixin_absent(u) == "pass"

\* LoginRequiredMixin.dispatch: checked before the view's handler runs
LoginRequiredMixin(u) ==
    IF is_authenticated(u) THEN "pass" ELSE handle_no_permission(u)

\* PermissionRequiredMixin.dispatch: checked before get() or post() runs
PermissionRequiredMixin(u, perm) ==
    IF has_perm(u, perm) THEN "pass" ELSE handle_no_permission(u)

----------------------------------------------------------------------------
(* catalog/forms.py: RenewBookForm *)

PAST_DATE == "Invalid date - renewal in past"
TOO_FAR_AHEAD == "Invalid date - renewal more than 4 weeks ahead"
REQUIRED == "This field is required."
INVALID_DATE == "Enter a valid date."

\* The renewal_date value of a POST body: absent, text that is no date, or a date.
MissingDate == [kind |-> "missing", date |-> 0]
UnparsableDate == [kind |-> "unparsable", date |-> 0]
PostedDate(d) == [kind |-> "date", date |-> d]

\* The dates a caller submits on day t: both ends of the renewal window, up
\* to Margin days outside each end, and the date the GET form proposes.
ProposedDates(t) ==
    ((t - Margin) .. t)
    \cup {t + timedelta_weeks(DEFAULT_RENEWAL_WEEKS)}
    \cup ((t + timedelta_weeks(MAX_RENEWAL_WEEKS)) ..
          (t + timedelta_weeks(MAX_RENEWAL_WEEKS) + Margin))

PostData(t) == {MissingDate, UnparsableDate} \cup {PostedDate(d) : d \in ProposedDates(t)}

Valid(d) == [ok |-> TRUE, error |-> "", value |-> <<d>>]
ValidationError(msg) == [ok |-> FALSE, error |-> msg, value |-> NoDate]

\* forms.DateField (required): the field's own cleaning, before clean_renewal_date
DateField_clean(data) ==
    IF data.kind = "missing" THEN ValidationError(REQUIRED)
    ELSE IF data.kind = "unparsable" THEN ValidationError(INVALID_DATE)
    ELSE Valid(data.date)

\* clean_renewal_date with the last day of the window excluded
clean_renewal_date_exclusive(data, t) ==
    IF data < t THEN ValidationError(PAST_DATE)
    ELSE IF data >= t + timedelta_weeks(MAX_RENEWAL_WEEKS)
         THEN ValidationError(TOO_FAR_AHEAD)
    ELSE Valid(data)

\* clean_renewal_date without the check against the past
clean_renewal_date_no_past(data, t) ==
    IF data > t + timedelta_weeks(MAX_RENEWAL_WEEKS)
    THEN ValidationError(TOO_FAR_AHEAD)
    ELSE Valid(data)

\* RenewBookForm.clean_renewal_date, with datetime.date.today() = t
clean_renewal_date(data, t) ==
    IF data < t THEN ValidationError(PAST_DATE)
    ELSE IF data > t + timedelta_weeks(MAX_RENEWAL_WEEKS)
         THEN ValidationError(TOO_FAR_AHEAD)
    ELSE Valid(data)

\* RenewBookForm(request.POST): is_valid() is .ok, cleaned_data["renewal_date"]
\* is .value, errors["renewal_date"] is .error
RenewBookForm(data, t) ==
    LET field == DateField_clean(data)
    IN  IF ~field.ok THEN field ELSE clean_renewal_date(field.value[1], t)

----------------------------------------------------------------------------
(* catalog/models.py: BookInstance rows.  The imprint is never read by a     *)
(* handler and is left out of the row.                                       *)

BookInstance(book, status, borrower, due_back) ==
    [book |-> book, status |-> status, borrower |-> borrower, due_back |-> due_back]

\* Users who hold copies on loan when the model starts
Borrowers == {"reader"}

\* The copies lent when the model starts are due InitialLoanDays days after
\* today, or are that many days overdue.
InitialLoanDays == 5

\* The book each stored copy belongs to
BookOf(pk) == IF pk = "uuid-1" THEN 1 ELSE 2

\* get_object_or_404(BookInstance, pk=pk)
Exists(pk) == pk \in DOMAIN bookinstances

\* History of consecutive returns: no return yet, and one more return of pk.
NoStreak == [pk |-> None, n |-> 0]

Returned(pk) ==
    IF streak.pk = pk
    THEN [pk |-> pk, n |-> IF streak.n < MaxStreak THEN streak.n + 1 ELSE MaxStreak]
    ELSE [pk |-> pk, n |-> 1]

----------------------------------------------------------------------------
(* catalog/models.py: Author and Book rows *)

Author(first_name, last_name, date_of_birth, date_of_death) ==
    [first_name |-> first_name, last_name |-> last_name,
     date_of_birth |-> date_of_birth, date_of_death |-> date_of_death]

\* Book.author is a nullable foreign key: NoAuthor is NULL
NoAuthor == 0

\* Of a book the title stands for the fields that are its own (title,
\* summary, isbn, language), next to the author reference.
Book(title, author) == [title |-> title, author |-> author]

\* The authors and books the library starts with
InitialAuthors ==
    (1 :> Author("Jane", "Doe", NoDate, NoDate))
    @@ (2 :> Author("John", "Doe", NoDate, NoDate))

InitialBooks == (1 :> Book("Emma", 1)) @@ (2 :> Book("Ulysses", 2))

----------------------------------------------------------------------------
(* History: the copies as the successful lifecycle requests alone leave them *)

\* A lifecycle request succeeded when it was answered with the redirect that
\* follows the save.
Succeeded(resp) == resp.status = 302 /\ resp.location.name # "login"

\* What a successful request does: a renewal sets due_back to the date that
\* was submitted, a return sets AVAILABLE and no borrower.
Applied(rows, req) ==
    IF req.view = "renew"
    THEN [rows EXCEPT ![req.pk].due_back = <<req.data.date>>]
    ELSE [rows EXCEPT ![req.pk].status = AVAILABLE, ![req.pk].borrower = None]

EmptyTable == <<>>

----------------------------------------------------------------------------
(* catalog/views.py: renew_book_librarian *)

\* RenewedRow without the assignment to due_back
RenewedRow_unassigned(row, renewal_date) == row

\* RenewedRow that also puts the copy on loan
RenewedRow_on_loan(row, renewal_date) ==
    [row EXCEPT !.due_back = renewal_date, !.status = ON_LOAN]

\* lines 153-156: the row book_instance.save() writes
RenewedRow(row, renewal_date) == [row EXCEPT !.due_back = renewal_date]

\* renew_success_url that leads to the page of the copy's book
renew_success_url_book_detail(row) == redirect("book-detail", row.book)

\* line 156: redirect("my-borrowed"), whatever the copy
renew_success_url(row) == redirect("my-borrowed", 0)

\* dispatch with the instance looked up before the checks
dispatch_lookup_first(access, found) ==
    IF ~found THEN "not_found"
    ELSE IF access # "pass" THEN access
    ELSE "view"

\* The decorators of renew_book_librarian, and the dispatch of the mixin of
\* MarkBookAsReturnedView, run before the body of the view, whose first
\* statement is get_object_or_404: what a request meets first.
dispatch(access, found) ==
    IF access # "pass" THEN access
    ELSE IF ~found THEN "not_found"
    ELSE "view"

\* renew_save that saves whatever the form holds
renew_save_unvalidated(rows, pk, form) ==
    [rows EXCEPT ![pk] = RenewedRow(@, form.value)]

\* lines 152-155: the table after the POST branch, which saves only under
\* form.is_valid()
renew_save(rows, pk, form) ==
    IF form.ok THEN [rows EXCEPT ![pk] = RenewedRow(@, form.value)] ELSE rows

renew_book_librarian ==
    /\ request.view = "renew"
    /\ response = NoResponse
    /\ LET u == request.user
           pk == request.pk
           outcome == dispatch(renew_access(u), Exists(pk))
           form == RenewBookForm(request.data, today)
       IN  /\ UNCHANGED <<sessions, index_requests, workers, returned,
                          engine, today,
                          books, book_seq, authors, author_seq, request>>
           /\ before' = tables
           /\ streak' = NoStreak
           /\ IF outcome = "login"
              THEN /\ response' = redirect_to_login(request)
                   /\ UNCHANGED bookinstances
              ELSE IF outcome = "forbidden"
              THEN /\ response' = PermissionDenied
                   /\ UNCHANGED bookinstances
              ELSE IF outcome = "not_found"
              THEN /\ response' = Http404
                   /\ UNCHANGED bookinstances
              ELSE IF request.method = "POST"
              THEN /\ bookinstances' = renew_save(bookinstances, pk, form)
                   /\ response' =
                         IF form.ok
                         THEN HttpResponse(302, renew_success_url(bookinstances'[pk]),
                                           None, "", NoDate)
                         ELSE HttpResponse(200, NoLocation, pk, form.error, NoDate)
              ELSE /\ response' = HttpResponse(200, NoLocation, pk, "",
                                      <<today + timedelta_weeks(DEFAULT_RENEWAL_WEEKS)>>)
                   /\ UNCHANGED bookinstances
           /\ shadow' = IF Succeeded(response') THEN Applied(shadow, request)
                        ELSE shadow

----------------------------------------------------------------------------
(* catalog/views.py: MarkBookAsReturnedView *)

\* ReturnedRow guarded by the prior status
ReturnedRow_guarded(row) ==
    IF row.status = ON_LOAN THEN [row EXCEPT !.status = AVAILABLE, !.borrower = None]
    ELSE row

\* ReturnedRow that toggles between AVAILABLE and ON_LOAN
ReturnedRow_toggle(row) ==
    [row EXCEPT !.status = IF @ = AVAILABLE THEN ON_LOAN ELSE AVAILABLE,
                !.borrower = None]

\* ReturnedRow without the assignment to borrower
ReturnedRow_keeps_borrower(row) == [row EXCEPT !.status = AVAILABLE]

\* ReturnedRow that writes the row back as it was read
ReturnedRow_unsaved(row) == row

\* lines 136-138: the row book_instance.save() writes
ReturnedRow(row) == [row EXCEPT !.status = AVAILABLE, !.borrower = None]

MarkBookAsReturnedView ==
    /\ request.view = "mark-returned"
    /\ response = NoResponse
    /\ LET u == request.user
           pk == request.pk
           outcome == dispatch(PermissionRequiredMixin(u, "catalog.can_mark_returned"),
                               Exists(pk))
           saved == outcome = "view" /\ request.method = "POST"
       IN  /\ UNCHANGED <<sessions, index_requests, workers, engine, today,
                          books, book_seq, authors, author_seq, request>>
           /\ before' = tables
           /\ streak' = IF saved THEN Returned(pk) ELSE NoStreak
           /\ returned' = IF saved THEN returned \cup {pk} ELSE returned
           /\ IF outcome = "login"
              THEN /\ response' = redirect_to_login(request)
                   /\ UNCHANGED bookinstances
              ELSE IF outcome = "forbidden"
              THEN /\ response' = PermissionDenied
                   /\ UNCHANGED bookinstances
              ELSE IF outcome = "not_found"
              THEN /\ response' = Http404
                   /\ UNCHANGED bookinstances
              ELSE IF request.method = "POST"
              THEN /\ bookinstances' = [bookinstances EXCEPT ![pk] = ReturnedRow(@)]
                   /\ response' = HttpResponse(302,
                                      redirect("book-detail", bookinstances'[pk].book),
                                      None, "", NoDate)
              ELSE /\ response' = HttpResponse(200, NoLocation, pk, "", NoDate)
                   /\ UNCHANGED bookinstances
           /\ shadow' = IF Succeeded(response') THEN Applied(shadow, request)
                        ELSE shadow

----------------------------------------------------------------------------
(* catalog/models.py: BookInstance.is_overdue and Meta.ordering;             *)
(* catalog/views.py: LoanedBooksByUserListView                               *)

\* Python's truth value of an optional boolean: None and False are falsy
bool(v) == v # <<>> /\ v[1]

\* is_overdue that counts the due day itself as overdue
is_overdue_inclusive(row, t) ==
    IF row.due_back = NoDate THEN <<>> ELSE <<t >= row.due_back[1]>>

\* self.due_back and date.today() > self.due_back, with date.today() = t:
\* `x and y` is x when x is falsy, so the value is None (<<>>) when due_back
\* is None, and the comparison otherwise (a date is always truthy).
is_overdue(row, t) ==
    IF row.due_back = NoDate THEN <<>> ELSE <<t > row.due_back[1]>>

\* ORDER BY due_back ASC as the backend db compares two rows: r1 may come
\* before r2
due_back_asc(r1, r2, db) ==
    IF r1.due_back = NoDate /\ r2.due_back = NoDate THEN TRUE
    ELSE IF r1.due_back = NoDate THEN nulls_first(db)
    ELSE IF r2.due_back = NoDate THEN ~nulls_first(db)
    ELSE r1.due_back[1] <= r2.due_back[1]

\* The sequences without repetition of the elements of the set S
Permutations_of(S) ==
    {l \in [1 .. Cardinality(S) -> S] : \A i, j \in DOMAIN l : l[i] = l[j] => i = j}

\* .order_by("due_back") over the rows with the keys in S: every order the
\* backend may return them in (rows that compare equal come in any order)
order_by_due_back(S, rows, db) ==
    {l \in Permutations_of(S) :
        \A i, j \in DOMAIN l : i < j => due_back_asc(rows[l[i]], rows[l[j]], db)}

\* BookInstance.objects.all(): every stored copy, in the order of Meta.ordering
objects_all(rows, db) == order_by_due_back(DOMAIN rows, rows, db)

\* .filter(borrower=user).filter(status__exact=LoanStatus.ON_LOAN.value)
filter_on_loan_to(rows, u) ==
    {pk \in DOMAIN rows : rows[pk].borrower = u /\ rows[pk].status = ON_LOAN}

\* get_queryset(): the orders the copies on loan to u may be listed in
get_queryset(rows, u, db) == order_by_due_back(filter_on_loan_to(rows, u), rows, db)

BOOKS_PER_PAGE == 5

\* paginate_by: the first page of a list
first_page(l) ==
    IF Len(l) <= BOOKS_PER_PAGE THEN l ELSE SubSeq(l, 1, BOOKS_PER_PAGE)

LoanedBooksByUserListView ==
    /\ request.view = "my-borrowed"
    /\ response = NoResponse
    /\ LET u == request.user
           access == LoginRequiredMixin(u)
       IN  /\ UNCHANGED <<sessions, index_requests, workers, returned,
                          shadow, engine, today, bookinstances, books,
                          book_seq, authors,
                          author_seq, request>>
           /\ before' = tables
           /\ streak' = NoStreak
           /\ IF access = "login"
              THEN response' = redirect_to_login(request)
              ELSE IF access = "forbidden"
              THEN response' = PermissionDenied
              ELSE IF request.method # "GET"
              THEN response' = HttpResponseNotAllowed
              ELSE \E l \in get_queryset(bookinstances, u, engine) :
                      response' =
                          [HttpResponse(200, NoLocation, None, "", NoDate)
                              EXCEPT !.object_list = first_page(l),
                                     !.can_renew = has_perm(u, "catalog.can_renew")]

----------------------------------------------------------------------------
(* catalog/models.py: BookInstance.objects.create with keyword arguments.    *)
(* A call is kept in request and what it returns in response, as for a view. *)

\* default=LoanStatus.MAINTENANCE.value, with another default
status_default_available == AVAILABLE

\* BookInstance.status: default=LoanStatus.MAINTENANCE.value
status_default == MAINTENANCE

\* The keyword arguments of a call: the names in given are passed, with the
\* values of the fields of those names.
Kwargs(given, status, due_back, borrower) ==
    [given |-> given, status |-> status, due_back |-> due_back, borrower |-> borrower]

\* The calls made on day t: without arguments, with a status, for a copy lent
\* without a borrower on record, and for a copy lent to a borrower.
CreateKwargs(t) ==
    {Kwargs({}, "", NoDate, None)}
    \cup {Kwargs({"status"}, s, NoDate, None) : s \in LoanStatus}
    \cup {Kwargs({"status", "due_back"}, ON_LOAN, <<t + InitialLoanDays>>, None)}
    \cup {Kwargs({"status", "due_back", "borrower"}, ON_LOAN,
                 <<t + InitialLoanDays>>, b) : b \in Borrowers}

\* The row Model.__init__ builds: each field is the argument passed for it, or
\* the field's default (due_back and borrower are null=True without default).
NewBookInstance(book, kwargs) ==
    BookInstance(book,
                 IF "status" \in kwargs.given THEN kwargs.status ELSE status_default,
                 IF "borrower" \in kwargs.given THEN kwargs.borrower ELSE None,
                 IF "due_back" \in kwargs.given THEN kwargs.due_back ELSE NoDate)

\* What a call returns: the key of the row it stored
Returns(pk) == HttpResponse(0, NoLocation, pk, "", NoDate)

\* BookInstance.objects.create(book=book, ...): id is a fresh uuid4
BookInstance_objects_create ==
    /\ request.view = ""
    /\ \E book \in DOMAIN books, kwargs \in CreateKwargs(today),
          id \in InstIds \ DOMAIN bookinstances :
          /\ request' = HttpRequest("create", "", None, book, kwargs)
          /\ bookinstances' = bookinstances @@ (id :> NewBookInstance(book, kwargs))
          /\ response' = Returns(id)
    /\ before' = tables
    /\ streak' = NoStreak
    /\ shadow' = bookinstances'
    /\ UNCHANGED <<sessions, index_requests, workers, returned, engine,
                   today, books, book_seq, authors, author_seq>>

----------------------------------------------------------------------------
(* catalog/management/commands/seed.py: Command.handle.  The genres are not  *)
(* modelled.                                                                 *)

\* The statuses of LoanStatus by name
seed_status_names == {"MAINTENANCE", "ON_LOAN", "AVAILABLE", "RESERVED"}

\* line 73: [status.value for status in LoanStatus]
seed_status_values == LoanStatus

\* line 72: faker.date_between(start_date='today', end_date='+30d'), of which
\* the model takes both ends
SeedDates(t) == {t, t + 30}

\* line 67: random.randint(1, 5) copies of each book
SEED_MAX_COPIES == 5

\* lines 42-47: an author as the seeder fills it
SeededAuthor(t) == Author("First", "Last", <<t - 10950>>, NoDate)

RestrictedError == "RestrictedError"

\* What the command ends with: "" when it completed, or the exception raised
CommandResult(error) == HttpResponse(0, NoLocation, "seed", error, NoDate)

\* Author.objects.all().delete(): Book.author is SET_NULL
AllAuthorsNull == [b \in DOMAIN books |-> [books[b] EXCEPT !.author = NoAuthor]]

\* line 56: title=seeder.faker.sentence(nb_words=4)
SeededTitle == "A seeded title"

\* restricted_by of a reference that restricts nothing
restricted_by_nothing(b) == {}

\* catalog/models.py line 114: BookInstance.book is on_delete=RESTRICT, and the
\* copies of book b restrict its deletion
restricted_by(b) == {pk \in DOMAIN bookinstances : bookinstances[pk].book = b}

\* The copies that restrict Book.objects.all().delete()
Restricting == UNION {restricted_by(b) : b \in DOMAIN books}

\* Book.delete() of book b: the collector raises RestrictedError, before any
\* row is deleted, while a copy references the book; otherwise the row goes.
Book_delete ==
    /\ request.view = ""
    /\ \E b \in DOMAIN books :
          /\ request' = HttpRequest("book-delete", "", None, b,
                                    [kind |-> "delete", date |-> 0])
          /\ IF restricted_by(b) # {}
             THEN /\ response' = CommandResult(RestrictedError)
                  /\ UNCHANGED books
             ELSE /\ response' = CommandResult("")
                  /\ books' = [x \in DOMAIN books \ {b} |-> books[x]]
    /\ before' = tables
    /\ streak' = NoStreak
    /\ UNCHANGED <<sessions, index_requests, workers, returned, shadow, engine,
                   today, bookinstances, book_seq, authors, author_seq>>

\* lines 20-27: seed --clear
seed_clear ==
    /\ request.view = ""
    /\ request' = HttpRequest("seed", "", None, None, [kind |-> "clear", date |-> 0])
    /\ bookinstances' = EmptyTable
    /\ books' = EmptyTable
    /\ authors' = EmptyTable
    /\ response' = CommandResult("")
    /\ before' = tables
    /\ streak' = NoStreak
    /\ returned' = {}
    /\ shadow' = bookinstances'
    /\ UNCHANGED <<sessions, index_requests, workers, engine, today,
                   book_seq, author_seq>>

\* lines 29-76: seed.  The deletes run in the order Genre, Author, Book,
\* BookInstance, each in its own transaction; the delete of the books raises
\* RestrictedError while a copy of one is stored, and the command stops there.
\* Otherwise SeedAuthors authors, SeedBooks books and the copies are created.
seed ==
    /\ request.view = ""
    /\ request' = HttpRequest("seed", "", None, None, [kind |-> "seed", date |-> 0])
    /\ before' = tables
    /\ streak' = NoStreak
    /\ UNCHANGED <<sessions, index_requests, workers, engine, today>>
    /\ IF Restricting # {}
       THEN /\ authors' = EmptyTable
            /\ books' = AllAuthorsNull
            /\ response' = CommandResult(RestrictedError)
            /\ UNCHANGED <<bookinstances, book_seq, author_seq, returned,
                           shadow>>
       ELSE LET new_authors == (author_seq + 1) .. (author_seq + SeedAuthors)
                new_books == (book_seq + 1) .. (book_seq + SeedBooks)
            IN  /\ author_seq + SeedAuthors <= MaxAuthors
                /\ book_seq + SeedBooks <= MaxBooks
                /\ authors' = [a \in new_authors |-> SeededAuthor(today)]
                /\ author_seq' = author_seq + SeedAuthors
                /\ books' \in [new_books -> {Book(SeededTitle, a) : a \in new_authors}]
                /\ book_seq' = book_seq + SeedBooks
                /\ \E ids \in SUBSET InstIds :
                      \E owner \in [ids -> new_books] :
                         /\ \A b \in new_books :
                               Cardinality({id \in ids : owner[id] = b})
                                  \in 1 .. SEED_MAX_COPIES
                         /\ bookinstances' \in
                               {f \in [ids -> {BookInstance(b, st, None, <<d>>) :
                                                 b \in new_books,
                                                 st \in seed_status_values,
                                                 d \in SeedDates(today)}] :
                                   \A id \in ids : f[id].book = owner[id]}
                /\ response' = CommandResult("")
                /\ returned' = {}
                /\ shadow' = bookinstances'

----------------------------------------------------------------------------
(* The clients: a request arrives when none is being handled, and its        *)
(* response is delivered before the next one arrives.                        *)

NoRequest == HttpRequest("", "", AnonymousUser, None, MissingDate)

NoSnapshot == <<>>

RenewRequests ==
    {HttpRequest("renew", "GET", u, pk, MissingDate) : u \in Callers, pk \in Pks}
    \cup
    UNION {{HttpRequest("renew", "POST", u, pk, data) : u \in Callers, pk \in Pks} :
             data \in PostData(today)}

ReturnRequests ==
    UNION {{HttpRequest("mark-returned", m, u, pk, MissingDate) :
              u \in Callers, pk \in Pks} : m \in Methods}

Receive(requests) ==
    /\ request.view = ""
    /\ request' \in requests
    /\ UNCHANGED <<sessions, index_requests, workers, returned, shadow,
                   engine, today, bookinstances, books, book_seq, authors,
                   author_seq, response,
                   before, streak>>

ReceiveRenew == Receive(RenewRequests)

ReceiveReturn == Receive(ReturnRequests)

ListRequests ==
    {HttpRequest("my-borrowed", m, u, None, MissingDate) : m \in Methods, u \in Callers}

ReceiveList == Receive(ListRequests)

Deliver ==
    /\ response # NoResponse
    /\ request' = NoRequest
    /\ response' = NoResponse
    /\ before' = NoSnapshot
    /\ UNCHANGED <<sessions, index_requests, workers, returned, shadow,
                   engine, today, bookinstances, books, book_seq, authors,
                   author_seq, streak>>

----------------------------------------------------------------------------
(* The lifecycle specification: requests are handled one at a time. *)

\* The rows the model starts from on day t.  The first copy is in any status,
\* with or without a borrower, with no due date, one ahead or one passed; the
\* second is out on loan.
InitialRows(pk, t) ==
    IF pk = "uuid-1"
    THEN {BookInstance(BookOf(pk), s, b, d) :
            s \in LoanStatus, b \in Borrowers \cup {None},
            d \in {NoDate, <<t + InitialLoanDays>>, <<t - InitialLoanDays>>}}
    ELSE {BookInstance(BookOf(pk), ON_LOAN, "reader", <<t + InitialLoanDays>>)}

Init ==
    /\ today \in 0 .. MaxDay
    /\ bookinstances \in
          {f \in [InstIds -> UNION {InitialRows(pk, today) : pk \in InstIds}] :
              \A pk \in InstIds : f[pk] \in InitialRows(pk, today)}
    /\ books = InitialBooks
    /\ authors = InitialAuthors
    /\ author_seq = 2
    /\ book_seq = 2
    /\ engine \in Engines
    /\ request = NoRequest
    /\ response = NoResponse
    /\ before = NoSnapshot
    /\ streak = NoStreak
    /\ returned = {}
    /\ shadow = bookinstances
    /\ sessions = EmptyTable
    /\ index_requests = EmptyTable
    /\ workers = EmptyTable

Next ==
    \/ ReceiveRenew
    \/ ReceiveReturn
    \/ renew_book_librarian
    \/ MarkBookAsReturnedView
    \/ ReceiveList
    \/ LoanedBooksByUserListView
    \/ Deliver

Spec == Init /\ [][Next]_vars

----------------------------------------------------------------------------
(* The loans specification: the lifecycle views, started from copies that    *)
(* have a borrower only while they are on loan.                              *)

InitLoans ==
    /\ Init
    /\ \A pk \in DOMAIN bookinstances :
          bookinstances[pk].status # ON_LOAN => bookinstances[pk].borrower = None

SpecLoans == InitLoans /\ [][Next]_vars

----------------------------------------------------------------------------
(* The catalog specification: copies are created, by calls and by the seed   *)
(* command, in a library that holds books and no copy yet, and the           *)
(* librarians renew them and mark them as returned.                          *)

\* The requests of the catalog specification: the POSTs of a caller who holds
\* the capability of the view.
CatalogRequests ==
    {r \in RenewRequests : r.user = "renewer" /\ r.method = "POST"}
    \cup {r \in ReturnRequests : r.user = "returner" /\ r.method = "POST"}

ReceiveCatalog == Receive(CatalogRequests)

InitCatalog ==
    /\ today = 0
    /\ engine \in Engines
    /\ bookinstances = EmptyTable
    /\ books = InitialBooks
    /\ authors = InitialAuthors
    /\ author_seq = 2
    /\ book_seq = 2
    /\ request = NoRequest
    /\ response = NoResponse
    /\ before = NoSnapshot
    /\ streak = NoStreak
    /\ returned = {}
    /\ shadow = bookinstances
    /\ sessions = EmptyTable
    /\ index_requests = EmptyTable
    /\ workers = EmptyTable

NextCatalog ==
    \/ BookInstance_objects_create
    \/ seed
    \/ seed_clear
    \/ ReceiveCatalog
    \/ renew_book_librarian
    \/ MarkBookAsReturnedView
    \/ Deliver

SpecCatalog == InitCatalog /\ [][NextCatalog]_vars

\* The books and their copies: copies are created, books are deleted, and the
\* seed command runs, one call at a time.
NextBooks ==
    \/ BookInstance_objects_create
    \/ Book_delete
    \/ seed
    \/ seed_clear
    \/ Deliver

SpecBooks == InitCatalog /\ [][NextBooks]_vars

----------------------------------------------------------------------------
(* catalog/views.py: AuthorCreateView, AuthorUpdateView, AuthorDeleteView *)

AuthorViews == {"author-create", "author-update", "author-delete"}

\* with every author view asking for add_author
AuthorPermission_copied(view) == "catalog.add_author"

\* permission_required of each view class
AuthorPermission(view) ==
    CASE view = "author-create" -> "catalog.add_author"
      [] view = "author-update" -> "catalog.change_author"
      [] view = "author-delete" -> "catalog.delete_author"

\* The POST bodies of the author form: a name left empty is a missing field.
AuthorData ==
    {Author(f, l, NoDate, NoDate) : f \in {"", "Jane", "John"}, l \in {"", "Doe"}}

NoAuthorData == Author("", "", NoDate, NoDate)

\* The ModelForm over fields first_name, last_name, date_of_birth,
\* date_of_death: the two names are required, the dates are not.
AuthorForm_is_valid(data) == data.first_name # "" /\ data.last_name # ""

AuthorPks == 1 .. MaxAuthors

AuthorCreateView ==
    /\ request.view = "author-create"
    /\ response = NoResponse
    /\ LET access == PermissionRequiredMixin(request.user,
                                             AuthorPermission("author-create"))
           pk == author_seq + 1
       IN  /\ UNCHANGED <<sessions, index_requests, workers, returned,
                          shadow, engine, today, bookinstances, books,
                          book_seq, request, streak>>
           /\ before' = tables
           /\ IF access = "login"
              THEN /\ response' = redirect_to_login(request)
                   /\ UNCHANGED <<authors, author_seq>>
              ELSE IF access = "forbidden"
              THEN /\ response' = PermissionDenied
                   /\ UNCHANGED <<authors, author_seq>>
              ELSE IF request.method = "POST" /\ AuthorForm_is_valid(request.data)
              THEN /\ authors' = authors @@ (pk :> request.data)
                   /\ author_seq' = pk
                   /\ response' = HttpResponse(302, redirect("author-detail", pk),
                                               None, "", NoDate)
              ELSE /\ response' = HttpResponse(200, NoLocation, None,
                                      IF request.method = "POST" THEN REQUIRED ELSE "",
                                      NoDate)
                   /\ UNCHANGED <<authors, author_seq>>

AuthorUpdateView ==
    /\ request.view = "author-update"
    /\ response = NoResponse
    /\ LET access == PermissionRequiredMixin(request.user,
                                             AuthorPermission("author-update"))
           pk == request.pk
       IN  /\ UNCHANGED <<sessions, index_requests, workers, returned,
                          shadow, engine, today, bookinstances, books,
                          book_seq, author_seq, request, streak>>
           /\ before' = tables
           /\ IF access = "login"
              THEN /\ response' = redirect_to_login(request)
                   /\ UNCHANGED authors
              ELSE IF access = "forbidden"
              THEN /\ response' = PermissionDenied
                   /\ UNCHANGED authors
              ELSE IF pk \notin DOMAIN authors
              THEN /\ response' = Http404
                   /\ UNCHANGED authors
              ELSE IF request.method = "POST" /\ AuthorForm_is_valid(request.data)
              THEN /\ authors' = [authors EXCEPT ![pk] = request.data]
                   /\ response' = HttpResponse(302, redirect("author-detail", pk),
                                               None, "", NoDate)
              ELSE /\ response' = HttpResponse(200, NoLocation, None,
                                      IF request.method = "POST" THEN REQUIRED ELSE "",
                                      NoDate)
                   /\ UNCHANGED authors

\* SetNull that deletes the books of the author with it (CASCADE)
SetNull_cascade(pk) ==
    [b \in {x \in DOMAIN books : books[x].author # pk} |-> books[b]]

\* Book.author is on_delete=SET_NULL: the books of a deleted author stay.
SetNull(pk) ==
    [b \in DOMAIN books |->
        IF books[b].author = pk THEN [books[b] EXCEPT !.author = NoAuthor]
        ELSE books[b]]

AuthorDeleteView ==
    /\ request.view = "author-delete"
    /\ response = NoResponse
    /\ LET access == PermissionRequiredMixin(request.user,
                                             AuthorPermission("author-delete"))
           pk == request.pk
       IN  /\ UNCHANGED <<sessions, index_requests, workers, returned,
                          shadow, engine, today, book_seq, bookinstances,
                          author_seq, request, streak>>
           /\ before' = tables
           /\ IF access = "login"
              THEN /\ response' = redirect_to_login(request)
                   /\ UNCHANGED <<authors, books>>
              ELSE IF access = "forbidden"
              THEN /\ response' = PermissionDenied
                   /\ UNCHANGED <<authors, books>>
              ELSE IF pk \notin DOMAIN authors
              THEN /\ response' = Http404
                   /\ UNCHANGED <<authors, books>>
              ELSE IF request.method = "POST"
              THEN /\ authors' = [a \in DOMAIN authors \ {pk} |-> authors[a]]
                   /\ books' = SetNull(pk)
                   /\ response' = HttpResponse(302, redirect("authors", 0),
                                               None, "", NoDate)
              ELSE /\ response' = HttpResponse(200, NoLocation, None, "", NoDate)
                   /\ UNCHANGED <<authors, books>>

----------------------------------------------------------------------------
(* catalog/views.py: AuthorListView *)

\* The names the model stores, in the order of the column's collation
Collation == <<"Doe", "First", "Jane", "John", "Last">>

collate(name) == CHOOSE i \in DOMAIN Collation : Collation[i] = name

\* ORDER BY last_name, first_name: a1 may come before a2
name_asc(a1, a2) ==
    \/ collate(a1.last_name) < collate(a2.last_name)
    \/ /\ a1.last_name = a2.last_name
       /\ collate(a1.first_name) <= collate(a2.first_name)

\* line 183: Author.objects.all().order_by("last_name", "first_name"), in
\* every order the backend may return (authors of one name come in any order)
order_by_name(rows) ==
    {l \in Permutations_of(DOMAIN rows) :
        \A i, j \in DOMAIN l : i < j => name_asc(rows[l[i]], rows[l[j]])}

\* lines 185-191: a ListView answers GET alone; any caller may ask; the flag
\* is has_perm of the codename "catalog.can_add_author".
AuthorListView ==
    /\ request.view = "authors"
    /\ response = NoResponse
    /\ IF request.method # "GET"
       THEN response' = HttpResponseNotAllowed
       ELSE \E l \in order_by_name(authors) :
               response' =
                   [HttpResponse(200, NoLocation, None, "", NoDate)
                       EXCEPT !.object_list = first_page(l),
                              !.can_add_author =
                                  has_perm(request.user, "catalog.can_add_author")]
    /\ before' = tables
    /\ UNCHANGED <<sessions, index_requests, workers, returned, shadow, engine,
                   today, bookinstances, books, book_seq, authors, author_seq,
                   request, streak>>

----------------------------------------------------------------------------
(* The author specification: the author views, one request at a time. *)

AuthorListRequests ==
    {HttpRequest("authors", m, u, 0, NoAuthorData) : m \in Methods, u \in Callers}

ReceiveAuthorList == Receive(AuthorListRequests)

AuthorCreateRequests ==
    {HttpRequest("author-create", "GET", u, 0, NoAuthorData) : u \in Callers}
    \cup {HttpRequest("author-create", "POST", u, 0, data) :
            u \in Callers, data \in AuthorData}

AuthorUpdateRequests ==
    {HttpRequest("author-update", "GET", u, pk, NoAuthorData) :
        u \in Callers, pk \in AuthorPks}
    \cup
    UNION {{HttpRequest("author-update", "POST", u, pk, data) :
              u \in Callers, pk \in AuthorPks} : data \in AuthorData}

AuthorDeleteRequests ==
    UNION {{HttpRequest("author-delete", m, u, pk, NoAuthorData) :
              u \in Callers, pk \in AuthorPks} : m \in Methods}

\* The author table's sequence is capped at MaxAuthors.
ReceiveAuthorCreate == author_seq < MaxAuthors /\ Receive(AuthorCreateRequests)

ReceiveAuthorUpdate == Receive(AuthorUpdateRequests)

ReceiveAuthorDelete == Receive(AuthorDeleteRequests)

InitAuthors ==
    /\ today = 0
    /\ bookinstances = [pk \in InstIds |->
                          BookInstance(BookOf(pk), ON_LOAN, "reader",
                                       <<today + InitialLoanDays>>)]
    /\ books = InitialBooks
    /\ authors = InitialAuthors
    /\ author_seq = 2
    /\ book_seq = 2
    /\ engine \in Engines
    /\ request = NoRequest
    /\ response = NoResponse
    /\ before = NoSnapshot
    /\ streak = NoStreak
    /\ returned = {}
    /\ shadow = bookinstances
    /\ sessions = EmptyTable
    /\ index_requests = EmptyTable
    /\ workers = EmptyTable

NextAuthors ==
    \/ ReceiveAuthorCreate
    \/ ReceiveAuthorUpdate
    \/ ReceiveAuthorDelete
    \/ ReceiveAuthorList
    \/ AuthorListView
    \/ AuthorCreateView
    \/ AuthorUpdateView
    \/ AuthorDeleteView
    \/ Deliver

SpecAuthors == InitAuthors /\ [][NextAuthors]_vars

----------------------------------------------------------------------------
(* catalog/views.py: index.  The session middleware hands the view the       *)
(* session of the request's cookie; a session that never stored num_visits   *)
(* has no entry in the store.                                                *)

SessionKeys == {"s1", "s2"}

\* session_get that starts counting at 0
session_get_from_zero(store, k) == IF k \in DOMAIN store THEN store[k] ELSE 0

\* line 39: request.session.get("num_visits", 1)
session_get(store, k) == IF k \in DOMAIN store THEN store[k] ELSE 1

\* line 40: request.session["num_visits"] = value
session_set(store, k, value) ==
    [x \in DOMAIN store \cup {k} |-> IF x = k THEN value ELSE store[x]]

\* lines 25-35: num_books, num_instances, num_instances_available, num_authors
counts ==
    <<Cardinality(DOMAIN books),
      Cardinality(DOMAIN bookinstances),
      Cardinality({pk \in DOMAIN bookinstances :
                     bookinstances[pk].status = AVAILABLE}),
      Cardinality(DOMAIN authors)>>

\* The view has no decorator: any caller, any method.
index ==
    /\ request.view = "index"
    /\ response = NoResponse
    /\ LET k == request.data.session
           num_visits == session_get(sessions, k)
       IN  /\ sessions' = session_set(sessions, k, num_visits + 1)
           /\ index_requests' = [index_requests EXCEPT ![k] = @ + 1]
           /\ response' = [HttpResponse(200, NoLocation, None, "", NoDate)
                             EXCEPT !.counts = counts, !.num_visits = num_visits]
    /\ before' = tables
    /\ UNCHANGED <<workers, returned, shadow, engine, today, bookinstances,
                   books,
                   book_seq, authors, author_seq, request, streak>>

IndexRequests ==
    {HttpRequest("index", m, u, None, [session |-> k]) :
       m \in Methods, u \in Callers, k \in SessionKeys}

\* A session makes at most MaxVisits index requests.
ReceiveIndex ==
    Receive({r \in IndexRequests : index_requests[r.data.session] < MaxVisits})

\* The library of the index tests, and no session yet
InitIndex ==
    /\ today = 0
    /\ engine \in Engines
    /\ bookinstances = ("uuid-1" :> BookInstance(1, AVAILABLE, None, NoDate))
                       @@ ("uuid-2" :> BookInstance(1, ON_LOAN, "reader",
                                                    <<today + InitialLoanDays>>))
    /\ books = InitialBooks
    /\ authors = InitialAuthors
    /\ author_seq = 2
    /\ book_seq = 2
    /\ request = NoRequest
    /\ response = NoResponse
    /\ before = NoSnapshot
    /\ streak = NoStreak
    /\ returned = {}
    /\ shadow = bookinstances
    /\ sessions = EmptyTable
    /\ index_requests = [k \in SessionKeys |-> 0]
    /\ workers = EmptyTable

NextIndex ==
    \/ ReceiveIndex
    \/ index
    \/ Deliver

SpecIndex == InitIndex /\ [][NextIndex]_vars

----------------------------------------------------------------------------
(* catalog/views.py: renew_book_librarian and MarkBookAsReturnedView.post    *)
(* when two requests are handled at once, each by its own worker.  A view    *)
(* runs no transaction and takes no lock: get_object_or_404 reads the row    *)
(* into the worker's book_instance, and book_instance.save() later writes    *)
(* every field of that object back.                                          *)

Workers == {"w1", "w2"}

NoRow == <<>>

Idle == [pc |-> "idle", request |-> NoRequest, book_instance |-> NoRow,
         response |-> NoResponse]

\* The worker's request answered
Done(req, resp) ==
    [pc |-> "done", request |-> req, book_instance |-> NoRow, response |-> resp]

\* The requests of the two librarians, for one copy and for a missing one
ConcurrentPks == {"uuid-1", MissingPk}

ConcurrentRequests ==
    {HttpRequest("renew", "POST", "renewer", pk, data) :
       pk \in ConcurrentPks, data \in PostData(today)}
    \cup {HttpRequest("mark-returned", "POST", "returner", pk, MissingDate) :
            pk \in ConcurrentPks}

\* The checks in front of the view the request is routed to
access_of(req) ==
    IF req.view = "renew" THEN renew_access(req.user)
    ELSE PermissionRequiredMixin(req.user, "catalog.can_mark_returned")

\* lines 134 and 148: the request arrives, passes the checks and
\* get_object_or_404 reads the row
Load(w) ==
    /\ workers[w].pc = "idle"
    /\ \E req \in ConcurrentRequests :
          LET outcome == dispatch(access_of(req), Exists(req.pk))
          IN  workers' = [workers EXCEPT ![w] =
                IF outcome = "login" THEN Done(req, redirect_to_login(req))
                ELSE IF outcome = "forbidden" THEN Done(req, PermissionDenied)
                ELSE IF outcome = "not_found" THEN Done(req, Http404)
                ELSE [pc |-> "loaded", request |-> req,
                      book_instance |-> bookinstances[req.pk],
                      response |-> NoResponse]]
    /\ UNCHANGED <<sessions, index_requests, returned, shadow, engine, today,
                   bookinstances, books, book_seq, authors, author_seq, request,
                   response, before, streak>>

\* The table in which the row is the one the worker holds
Held(w) ==
    [bookinstances EXCEPT ![workers[w].request.pk] = workers[w].book_instance]

\* lines 150-156: the form is validated and the object the worker holds is
\* saved with the new due_back
SaveRenewal(w) ==
    /\ workers[w].pc = "loaded"
    /\ workers[w].request.view = "renew"
    /\ LET req == workers[w].request
           form == RenewBookForm(req.data, today)
       IN  /\ bookinstances' = IF form.ok THEN renew_save(Held(w), req.pk, form)
                                ELSE bookinstances
           /\ workers' = [workers EXCEPT ![w] = Done(req,
                 IF form.ok
                 THEN HttpResponse(302, renew_success_url(bookinstances'[req.pk]),
                                   None, "", NoDate)
                 ELSE HttpResponse(200, NoLocation, req.pk, form.error, NoDate))]
           /\ shadow' = IF form.ok THEN Applied(shadow, req) ELSE shadow
    /\ UNCHANGED <<sessions, index_requests, returned, engine, today, books,
                   book_seq, authors, author_seq, request, response, before,
                   streak>>

\* lines 136-141: the object the worker holds is saved as returned
SaveReturn(w) ==
    /\ workers[w].pc = "loaded"
    /\ workers[w].request.view = "mark-returned"
    /\ LET req == workers[w].request
       IN  /\ bookinstances' = [bookinstances EXCEPT ![req.pk] =
                                  ReturnedRow(workers[w].book_instance)]
           /\ workers' = [workers EXCEPT ![w] = Done(req,
                 HttpResponse(302, redirect("book-detail", bookinstances'[req.pk].book),
                              None, "", NoDate))]
           /\ shadow' = Applied(shadow, req)
           /\ returned' = returned \cup {req.pk}
    /\ UNCHANGED <<sessions, index_requests, engine, today, books, book_seq,
                   authors, author_seq, request, response, before, streak>>

\* The library of the lifecycle specification, before both requests
InitConcurrent ==
    /\ today \in 0 .. MaxDay
    /\ engine \in Engines
    /\ bookinstances \in [InstIds -> UNION {InitialRows(pk, today) : pk \in InstIds}]
    /\ \A pk \in InstIds : bookinstances[pk] \in InitialRows(pk, today)
    /\ books = InitialBooks
    /\ authors = InitialAuthors
    /\ author_seq = 2
    /\ book_seq = 2
    /\ request = NoRequest
    /\ response = NoResponse
    /\ before = tables
    /\ streak = NoStreak
    /\ returned = {}
    /\ shadow = bookinstances
    /\ sessions = EmptyTable
    /\ index_requests = EmptyTable
    /\ workers = [w \in Workers |-> Idle]

NextConcurrent ==
    \/ \E w \in Workers : Load(w)
    \/ \E w \in Workers : SaveRenewal(w)
    \/ \E w \in Workers : SaveReturn(w)

\* A worker that holds a row goes on to save it.
SpecConcurrent ==
    /\ InitConcurrent
    /\ [][NextConcurrent]_vars
    /\ \A w \in Workers : WF_vars(SaveRenewal(w)) /\ WF_vars(SaveReturn(w))

----------------------------------------------------------------------------
(* Properties of the lifecycle specification.  Each is stated of the states  *)
(* in which a handler has answered the request: the request, the response,   *)
(* the tables before and the tables after are all in the state.              *)

Handled(view) == request.view = view /\ response # NoResponse

HoldsRenew(u) == u \in Users /\ "catalog.can_renew" \in user_permissions(u)
HoldsReturn(u) == u \in Users /\ "catalog.can_mark_returned" \in user_permissions(u)

\* C1: the renewal date validator accepts a date d, unchanged, iff
\* today <= d <= today + 28 days; it fails with PAST_DATE when d < today and
\* with TOO_FAR_AHEAD when d > today + 28 days.  Stated of the validator on
\* every submitted date, and of the renewal that ran it.
C1_ValidatorWindow ==
    (/\ Handled("renew") /\ request.method = "POST"
     /\ HoldsRenew(request.user)
     /\ request.pk \in DOMAIN before[1]
     /\ request.data.kind = "date")
    => LET d == request.data.date
           r == clean_renewal_date(d, today)
       IN  /\ r.ok <=> (today <= d /\ d <= today + 28)
           /\ r.ok => r.value = <<d>>
           /\ (today <= d /\ d <= today + 28) =>
                 /\ response.status = 302
                 /\ response.error = ""
                 /\ bookinstances[request.pk].due_back = <<d>>
           /\ d < today =>
                 /\ r.error = "Invalid date - renewal in past"
                 /\ response.status = 200
                 /\ response.error = "Invalid date - renewal in past"
           /\ d > today + 28 =>
                 /\ r.error = "Invalid date - renewal more than 4 weeks ahead"
                 /\ response.status = 200
                 /\ response.error = "Invalid date - renewal more than 4 weeks ahead"

\* C1 witness: the last day of the window was submitted and accepted.
C1_Witness ==
    /\ Handled("renew") /\ request.method = "POST"
    /\ request.user = "renewer" /\ request.pk = "uuid-1"
    /\ request.data = PostedDate(today + 28)
    /\ response.status = 302
    /\ bookinstances["uuid-1"].due_back = <<today + 28>>

\* C2: a renewal POST by a caller holding can_renew, for an existing instance
\* and with a date the validator accepts, leaves that instance's stored
\* due_back equal to the submitted date.
C2_RenewStoresDate ==
    (/\ Handled("renew") /\ request.method = "POST"
     /\ HoldsRenew(request.user)
     /\ request.pk \in DOMAIN before[1]
     /\ RenewBookForm(request.data, today).ok)
    => /\ request.pk \in DOMAIN bookinstances
       /\ bookinstances[request.pk].due_back = <<request.data.date>>

\* C2 witness: a renewal to 3 weeks ahead replaced another due date.
C2_Witness ==
    /\ Handled("renew") /\ request.method = "POST"
    /\ request.user = "renewer" /\ request.pk = "uuid-2"
    /\ request.data = PostedDate(today + 21)
    /\ before[1]["uuid-2"].due_back = <<today + 5>>
    /\ bookinstances["uuid-2"].due_back = <<today + 21>>

\* C3: a renewal POST whose date fails validation (in the past, more than 4
\* weeks ahead, missing or unparsable) changes no BookInstance and answers
\* with the validation error.
C3_InvalidRenewNoChange ==
    (/\ Handled("renew") /\ request.method = "POST"
     /\ HoldsRenew(request.user)
     /\ request.pk \in DOMAIN before[1]
     /\ ~(/\ request.data.kind = "date"
          /\ today <= request.data.date
          /\ request.data.date <= today + 28))
    => /\ bookinstances = before[1]
       /\ response.status = 200
       /\ response.instance = request.pk
       /\ response.error =
             CASE request.data.kind = "missing" -> "This field is required."
               [] request.data.kind = "unparsable" -> "Enter a valid date."
               [] request.data.kind = "date" /\ request.data.date < today ->
                     "Invalid date - renewal in past"
               [] OTHER -> "Invalid date - renewal more than 4 weeks ahead"

\* C3 witness: a renewal to yesterday came back with its error.
C3_Witness ==
    /\ Handled("renew") /\ request.method = "POST"
    /\ request.user = "renewer" /\ request.pk = "uuid-1"
    /\ request.data = PostedDate(today - 1)
    /\ response.status = 200
    /\ response.error = PAST_DATE
    /\ bookinstances = before[1]

\* C4: a successful renewal changes only due_back of the target: its status,
\* borrower and book, and every field of every other instance, are as before.
C4_RenewFrame ==
    (/\ Handled("renew")
     /\ response.status = 302
     /\ response.location.name = "my-borrowed")
    => /\ DOMAIN bookinstances = DOMAIN before[1]
       /\ \A q \in DOMAIN bookinstances :
             IF q = request.pk
             THEN /\ bookinstances[q].status = before[1][q].status
                  /\ bookinstances[q].borrower = before[1][q].borrower
                  /\ bookinstances[q].book = before[1][q].book
             ELSE bookinstances[q] = before[1][q]

\* C4 witness: a reserved copy with a borrower was renewed and is still
\* reserved with that borrower; the other copy is as it was.
C4_Witness ==
    /\ Handled("renew") /\ request.pk = "uuid-1"
    /\ response.status = 302 /\ response.location.name = "my-borrowed"
    /\ before[1]["uuid-1"] = BookInstance(1, RESERVED, "reader", <<today - 5>>)
    /\ bookinstances["uuid-1"] = BookInstance(1, RESERVED, "reader", <<today>>)
    /\ bookinstances["uuid-2"] = before[1]["uuid-2"]

\* C5: a mark-as-returned POST by a caller holding can_mark_returned, for an
\* existing instance in any status and with any due_back and borrower, is not
\* rejected and leaves the instance AVAILABLE with no borrower.
C5_ReturnUnconditional ==
    (/\ Handled("mark-returned") /\ request.method = "POST"
     /\ HoldsReturn(request.user)
     /\ request.pk \in DOMAIN before[1])
    => /\ bookinstances[request.pk].status = "a"
       /\ bookinstances[request.pk].borrower = "None"
       /\ response.status = 302
       /\ response.location.name = "book-detail"

\* C5 witness: a reserved copy with a borrower and a due date that has passed
\* was marked as returned.
C5_Witness ==
    /\ Handled("mark-returned") /\ request.method = "POST"
    /\ request.user = "returner" /\ request.pk = "uuid-1"
    /\ before[1]["uuid-1"] = BookInstance(1, RESERVED, "reader", <<today - 5>>)
    /\ bookinstances["uuid-1"] = BookInstance(1, AVAILABLE, None, <<today - 5>>)

\* C6: mark-as-returned is idempotent: a second return of the same copy, right
\* after the first, leaves the stored state exactly as the first left it
\* (AVAILABLE, no borrower, the same due_back).
C6_ReturnIdempotent ==
    (Handled("mark-returned") /\ streak.n >= 2)
    => /\ bookinstances = before[1]
       /\ bookinstances[streak.pk].status = "a"
       /\ bookinstances[streak.pk].borrower = "None"

\* C6 witness: a copy lent out was marked as returned twice in a row.
C6_Witness ==
    /\ Handled("mark-returned") /\ request.method = "POST"
    /\ streak = [pk |-> "uuid-2", n |-> 2]
    /\ bookinstances["uuid-2"] = BookInstance(2, AVAILABLE, None, <<today + 5>>)

\* C7: for renew (GET or POST) an unauthenticated caller is redirected to the
\* login page (302), an authenticated caller without can_renew is forbidden
\* (403), and in both cases nothing stored changes; so only a caller holding
\* can_renew changes a due_back through renew.
C7_RenewGate ==
    (Handled("renew") /\ ~HoldsRenew(request.user))
    => /\ tables = before
       /\ request.user = AnonymousUser =>
             (response.status = 302 /\ response.location.name = "login")
       /\ request.user \in Users => response.status = 403

\* C7 witness: a logged-in caller who may mark copies returned, but not renew,
\* posted a valid renewal.
C7_Witness ==
    /\ Handled("renew") /\ request.method = "POST"
    /\ request.user = "returner" /\ request.pk = "uuid-1"
    /\ request.data = PostedDate(today)
    /\ response.status = 403

\* C8: for mark-as-returned (GET or POST) an unauthenticated caller is
\* redirected to the login page, an authenticated caller without
\* can_mark_returned is forbidden, and in both cases nothing stored changes; so
\* only a caller holding can_mark_returned changes an instance through it.
C8_ReturnGate ==
    (Handled("mark-returned") /\ ~HoldsReturn(request.user))
    => /\ tables = before
       /\ request.user = AnonymousUser =>
             (response.status = 302 /\ response.location.name = "login")
       /\ request.user \in Users => response.status = 403

\* C8 witness: an unauthenticated caller posted a return of a lent copy.
C8_Witness ==
    /\ Handled("mark-returned") /\ request.method = "POST"
    /\ request.user = AnonymousUser /\ request.pk = "uuid-2"
    /\ response.status = 302 /\ response.location.name = "login"
    /\ bookinstances["uuid-2"].status = ON_LOAN

\* C10: a renew request by a caller holding can_renew for an instance
\* identifier that does not exist fails with 404 and changes no stored state.
C10_RenewNotFound ==
    (/\ Handled("renew")
     /\ HoldsRenew(request.user)
     /\ request.pk \notin DOMAIN before[1])
    => /\ response.status = 404
       /\ tables = before

\* C10 witness: a valid renewal was posted for an identifier no copy has.
C10_Witness ==
    /\ Handled("renew") /\ request.method = "POST"
    /\ request.user = "renewer" /\ request.pk = MissingPk
    /\ request.data = PostedDate(today + 21)
    /\ response.status = 404

\* A renewal POST by a caller holding can_renew, for an existing instance, with
\* a date the validator accepts, has been answered.
RenewSucceeded ==
    /\ Handled("renew") /\ request.method = "POST"
    /\ HoldsRenew(request.user)
    /\ request.pk \in DOMAIN before[1]
    /\ request.data.kind = "date"
    /\ today <= request.data.date
    /\ request.data.date <= today + 28

C12_RenewRedirectsToBookDetail ==
    RenewSucceeded
    => /\ response.status = 302
       /\ response.location.name = "book-detail"
       /\ response.location.pk = bookinstances[request.pk].book

\* C17: for every instance and every value of today, is_overdue is true iff
\* due_back is set and due_back < today; it is falsy when due_back is absent,
\* whatever the status, and false when due_back is today or later.
C17_IsOverdue ==
    \A pk \in DOMAIN bookinstances :
        LET row == bookinstances[pk]
            overdue == bool(is_overdue(row, today))
        IN  /\ overdue <=> (row.due_back # NoDate /\ row.due_back[1] < today)
            /\ row.due_back = NoDate => ~overdue
            /\ (row.due_back # NoDate /\ row.due_back[1] >= today) => ~overdue

\* C17 witness: one copy is 5 days past its due date and overdue, the other
\* was renewed to today and is not.
C17_Witness ==
    /\ Handled("renew") /\ request.pk = "uuid-2"
    /\ bookinstances["uuid-2"].due_back = <<today>>
    /\ ~bool(is_overdue(bookinstances["uuid-2"], today))
    /\ bookinstances["uuid-1"].due_back = <<today - 5>>
    /\ bool(is_overdue(bookinstances["uuid-1"], today))

\* C18: for every authenticated caller U and every stored set of instances,
\* the borrowed-books listing returns exactly the instances with borrower = U
\* and status = ON_LOAN, ordered by due_back ascending with the instances that
\* have no due_back last.
C18_BorrowedListing ==
    (Handled("my-borrowed") /\ request.method = "GET" /\ request.user \in Users)
    => LET l == response.object_list
           rows == bookinstances
       IN  /\ response.status = 200
           /\ {l[i] : i \in DOMAIN l} =
                 {pk \in DOMAIN rows :
                     rows[pk].borrower = request.user /\ rows[pk].status = "o"}
           /\ \A i, j \in DOMAIN l : i < j =>
                 /\ l[i] # l[j]
                 /\ rows[l[j]].due_back # NoDate =>
                       /\ rows[l[i]].due_back # NoDate
                       /\ rows[l[i]].due_back[1] <= rows[l[j]].due_back[1]

\* C19: a request for the borrowed-books view by an unauthenticated caller is
\* answered with the redirect to the login page, with the borrowed-books URL
\* as next, and returns no instance data.
C19_ListingNeedsLogin ==
    (Handled("my-borrowed") /\ request.user = AnonymousUser)
    => /\ response.status = 302
       /\ response.location.name = "login"
       /\ response.location.next = <<"my-borrowed", "None">>
       /\ response.object_list = <<>>
       /\ response.instance = "None"
       /\ tables = before

\* C19 witness: an unauthenticated caller asked for the listing while a user
\* had both copies on loan, and was sent to the login page.
C19_Witness ==
    /\ Handled("my-borrowed") /\ request.method = "GET"
    /\ request.user = AnonymousUser
    /\ \A pk \in InstIds : /\ bookinstances[pk].status = ON_LOAN
                            /\ bookinstances[pk].borrower = "reader"
    /\ response.status = 302

\* C20: the default ordering of any collection of BookInstances is by due_back
\* ascending, and every instance with no due_back comes after every instance
\* that has one.
C20_DefaultOrdering ==
    \A l \in objects_all(bookinstances, engine) :
        \A i, j \in DOMAIN l : i < j =>
            (bookinstances[l[j]].due_back # NoDate =>
                /\ bookinstances[l[i]].due_back # NoDate
                /\ bookinstances[l[i]].due_back[1] <= bookinstances[l[j]].due_back[1])

----------------------------------------------------------------------------
(* Properties of the loans and the catalog specifications *)

\* C13: in every reachable state every BookInstance whose status is not
\* ON_LOAN has due_back absent: no sequence of creations (seeding included),
\* renewals and returns gives a copy that is MAINTENANCE, AVAILABLE or RESERVED
\* a due date.
C13_DueBackOnlyOnLoan ==
    \A pk \in DOMAIN bookinstances :
        bookinstances[pk].status # "o" => bookinstances[pk].due_back = <<>>

\* C14: started from instances whose borrower is absent whenever their status
\* is not ON_LOAN, every sequence of renew and mark-as-returned requests,
\* handled one at a time, keeps it so: an instance that is not ON_LOAN has no
\* borrower.
C14_BorrowerOnlyOnLoan ==
    \A pk \in DOMAIN bookinstances :
        bookinstances[pk].status # "o" => bookinstances[pk].borrower = "None"

\* C14 witness: a copy on loan to a borrower was renewed, then marked as
\* returned, and has no borrower any more.
C14_Witness ==
    /\ Handled("mark-returned") /\ request.pk = "uuid-2"
    /\ before[1]["uuid-2"] = BookInstance(2, ON_LOAN, "reader", <<today + 21>>)
    /\ bookinstances["uuid-2"] = BookInstance(2, AVAILABLE, None, <<today + 21>>)

C16_DefaultStatus ==
    (Handled("create") /\ "status" \notin request.data.given)
    => LET pk == response.instance
       IN  /\ pk \notin DOMAIN before[1]
           /\ pk \in DOMAIN bookinstances
           /\ bookinstances[pk].status = "m"
           /\ bookinstances[pk].book = request.pk
           /\ "due_back" \notin request.data.given =>
                 bookinstances[pk].due_back = <<>>
           /\ "borrower" \notin request.data.given =>
                 bookinstances[pk].borrower = "None"
           /\ \A q \in DOMAIN before[1] : bookinstances[q] = before[1][q]

\* C16 witness: a copy of the first book was created without any argument.
C16_Witness ==
    /\ Handled("create") /\ request.data.given = {}
    /\ request.pk = 1
    /\ bookinstances[response.instance] = BookInstance(1, MAINTENANCE, None, NoDate)

----------------------------------------------------------------------------
(* Properties of the author specification *)

\* The capability the claim pairs with each author operation
MatchingCapability(view) ==
    CASE view = "author-create" -> "catalog.add_author"
      [] view = "author-update" -> "catalog.change_author"
      [] view = "author-delete" -> "catalog.delete_author"

\* C9: author create, update and delete are each gated by the matching
\* capability (add_author, change_author, delete_author): an unauthenticated
\* caller is redirected to login, an authenticated caller lacking the matching
\* capability is forbidden (also when holding one of the other two), and in
\* both cases the authors are unchanged; a caller holding it is let through.
C9_AuthorGate ==
    (request.view \in AuthorViews /\ response # NoResponse)
    => LET u == request.user
           holds == u \in Users /\ MatchingCapability(request.view) \in user_permissions(u)
       IN  /\ ~holds =>
                 /\ tables = before
                 /\ u = AnonymousUser =>
                       (response.status = 302 /\ response.location.name = "login")
                 /\ u \in Users => response.status = 403
           /\ holds => (response.status # 403 /\ response.location.name # "login")

\* C9 witness: a caller holding change_author, not delete_author, posted the
\* deletion of an author, who is still there.
C9_Witness ==
    /\ Handled("author-delete") /\ request.method = "POST"
    /\ request.user = "changer" /\ request.pk = 1
    /\ response.status = 403
    /\ 1 \in DOMAIN authors


----------------------------------------------------------------------------
(* The books and their copies *)

\* C21: the deletion of a book that still has a copy is rejected with an
\* integrity violation (RestrictedError) and leaves the book and its copies
\* as they were; and every stored copy references a stored book.
C21_RestrictedDelete ==
    /\ \A pk \in DOMAIN bookinstances : bookinstances[pk].book \in DOMAIN books
    /\ (/\ Handled("book-delete")
        /\ \E pk \in DOMAIN before[1] : before[1][pk].book = request.pk)
       => /\ response.error = RestrictedError
          /\ books = before[2]
          /\ bookinstances = before[1]

C21_Witness ==
    /\ Handled("book-delete")
    /\ \E pk \in DOMAIN before[1] : before[1][pk].book = request.pk
    /\ response.error = RestrictedError
    /\ request.pk \in DOMAIN books

----------------------------------------------------------------------------
(* The author specification: what a deletion leaves *)

HoldsDelete(u) == u \in Users /\ "catalog.delete_author" \in user_permissions(u)

\* C22: the deletion of an author by a holder of delete_author removes the
\* author and nothing else: every book that referenced the author is still
\* stored, with its other fields unchanged and no author; every other book
\* and every copy is as it was.
C22_AuthorDeleteSetsNull ==
    (/\ Handled("author-delete") /\ request.method = "POST"
     /\ HoldsDelete(request.user)
     /\ request.pk \in DOMAIN before[3])
    => /\ DOMAIN authors = DOMAIN before[3] \ {request.pk}
       /\ \A a \in DOMAIN authors : authors[a] = before[3][a]
       /\ DOMAIN books = DOMAIN before[2]
       /\ \A b \in DOMAIN before[2] :
             /\ books[b].title = before[2][b].title
             /\ books[b].author = IF before[2][b].author = request.pk
                                   THEN NoAuthor ELSE before[2][b].author
       /\ bookinstances = before[1]

C22_Witness ==
    /\ Handled("author-delete") /\ request.method = "POST"
    /\ HoldsDelete(request.user)
    /\ request.pk \in DOMAIN before[3]
    /\ \E b \in DOMAIN books :
          before[2][b].author = request.pk /\ books[b].author = NoAuthor
    /\ \E pk \in DOMAIN bookinstances :
          before[2][bookinstances[pk].book].author = request.pk

----------------------------------------------------------------------------
(* The index specification *)

\* C23: the visit counter is per session.  The n-th index request of a
\* session shows n, starting at 1, and what a session stores follows from the
\* index requests made in that session alone: requests in another session
\* never change it.
C23_VisitsPerSession ==
    /\ \A k \in SessionKeys :
          IF index_requests[k] = 0 THEN k \notin DOMAIN sessions
          ELSE k \in DOMAIN sessions /\ sessions[k] = index_requests[k] + 1
    /\ Handled("index")
          => response.num_visits = index_requests[request.data.session]

C23_Witness ==
    /\ Handled("index")
    /\ response.num_visits = 2
    /\ index_requests[request.data.session] = 2
    /\ \E k \in SessionKeys \ {request.data.session} : index_requests[k] = 3

----------------------------------------------------------------------------
(* The concurrent specification *)

\* The worker was handed a request, and it passed the checks and the lookup
Started(w) == workers[w].pc = "loaded" \/ Succeeded(workers[w].response)

BothDone == \A w \in Workers : workers[w].pc = "done"

\* Both requests are valid renewals of the copy pk, with different dates
TwoRenewals(pk) ==
    /\ \A w \in Workers :
          /\ workers[w].request.view = "renew"
          /\ workers[w].request.pk = pk
          /\ RenewBookForm(workers[w].request.data, today).ok
          /\ Started(w)
    /\ workers["w1"].request.data.date # workers["w2"].request.data.date

\* What two concurrent renewals leave: one of the two dates, and the status
\* and borrower from before both
OneOfTheTwo ==
    \A pk \in InstIds :
       (TwoRenewals(pk) /\ BothDone)
       => /\ \E w \in Workers :
                bookinstances[pk].due_back = <<workers[w].request.data.date>>
          /\ bookinstances[pk].status = before[1][pk].status
          /\ bookinstances[pk].borrower = before[1][pk].borrower

\* C24: two valid renewals with different dates that run concurrently on the
\* same copy both complete, in every interleaving of their read and write
\* steps, and the copy then has the due_back of exactly one of them, with the
\* status and borrower it had before both.
C24_ConcurrentRenewals ==
    /\ []OneOfTheTwo
    /\ \A pk \in InstIds : TwoRenewals(pk) ~> (TwoRenewals(pk) /\ BothDone)

\* Both workers read the row before either saved it, and both have saved.
C24_Witness ==
    /\ TwoRenewals("uuid-1") /\ BothDone
    /\ before[1]["uuid-1"].status = AVAILABLE
    /\ bookinstances["uuid-1"].status = AVAILABLE
    /\ bookinstances["uuid-1"].due_back # before[1]["uuid-1"].due_back

\* One request is a valid renewal of the copy pk and the other its return
RenewAndReturn(pk, r, m) ==
    /\ r # m
    /\ workers[r].request.view = "renew"
    /\ RenewBookForm(workers[r].request.data, today).ok
    /\ workers[m].request.view = "mark-returned"
    /\ \A w \in {r, m} : workers[w].request.pk = pk /\ Started(w)

\* C25: a renewal and a return that run concurrently on the same copy leave
\* it, once both have completed and in every interleaving of their load and
\* save steps, AVAILABLE, without borrower and due on the renewed date.
C25_RenewAndReturnMerge ==
    \A pk \in InstIds, r \in Workers, m \in Workers :
       (RenewAndReturn(pk, r, m) /\ BothDone)
       => /\ bookinstances[pk].status = AVAILABLE
          /\ bookinstances[pk].borrower = None
          /\ bookinstances[pk].due_back = <<workers[r].request.data.date>>

----------------------------------------------------------------------------
(* Properties of the lifecycle specification, over sequences of requests *)

\* C26: once a copy was marked as returned it is in no caller's
\* borrowed-books listing, and no later renewal or return brings it back: no
\* user has it on loan, and no listing that is answered shows it.
C26_ReturnedStaysOut ==
    \A pk \in returned :
       /\ ~(bookinstances[pk].status = "o" /\ bookinstances[pk].borrower \in Users)
       /\ Handled("my-borrowed")
             => \A i \in DOMAIN response.object_list : response.object_list[i] # pk

\* C26 witness: the borrower of both copies asks for the listing after the
\* first was returned and renewed, and is shown the second alone.
C26_Witness ==
    /\ Handled("my-borrowed") /\ request.method = "GET"
    /\ request.user = "reader"
    /\ returned = {"uuid-1"}
    /\ bookinstances["uuid-1"].due_back = <<today + 21>>
    /\ response.object_list = <<"uuid-2">>

\* The caller holds the capability the view asks for
HoldsCapabilityOf(view, u) ==
    IF view = "renew" THEN HoldsRenew(u) ELSE HoldsReturn(u)

\* C27: renew and mark-as-returned check the caller before they look the copy
\* up.  An unauthenticated caller is sent to the login page and a caller
\* without the capability is refused, whether or not the identifier exists,
\* and nothing is written; NOT_FOUND is only returned to a holder of the
\* capability.
C27_ChecksBeforeLookup ==
    \A view \in {"renew", "mark-returned"} :
       Handled(view)
       => /\ request.user = AnonymousUser
                => /\ response.status = 302 /\ response.location.name = "login"
                   /\ tables = before
          /\ (request.user \in Users /\ ~HoldsCapabilityOf(view, request.user))
                => response.status = 403 /\ tables = before
          /\ response.status = 404 => HoldsCapabilityOf(view, request.user)

\* C27 witness: a user without can_mark_returned asked to return a copy that
\* does not exist, and was refused.
C27_Witness ==
    /\ Handled("mark-returned") /\ request.method = "POST"
    /\ request.user = "reader"
    /\ request.pk \notin DOMAIN bookinstances
    /\ response.status = 403

----------------------------------------------------------------------------
(* Properties of the author list *)

\* C28: the can_add_author flag of the author list is true exactly when the
\* caller holds the add_author capability, the one AuthorCreateView asks for.
C28_CanAddAuthorFlag ==
    (Handled("authors") /\ request.method = "GET")
    => (response.can_add_author
          <=> (request.user \in Users
               /\ "catalog.add_author" \in user_permissions(request.user)))

----------------------------------------------------------------------------
(* Properties of the seed command *)

\* C29: seed without --clear, run on any library, one that holds books with
\* copies included, clears what was stored and completes: it raises nothing,
\* and no author, book or copy from before is left.
C29_SeedCompletes ==
    (Handled("seed") /\ request.data.kind = "seed")
    => /\ response.error = ""
       /\ DOMAIN authors \cap DOMAIN before[3] = {}
       /\ DOMAIN books \cap DOMAIN before[2] = {}
       /\ \A pk \in DOMAIN bookinstances : bookinstances[pk].book \notin DOMAIN before[2]

----------------------------------------------------------------------------
(* Properties of the lifecycle specification: failures *)

\* C30: a lifecycle request that fails (validation error, not found,
\* forbidden, unauthenticated) changes nothing: after any sequence of
\* requests the stored copies are the ones obtained by applying the
\* successful requests of the sequence alone, in order.
C30_AllOrNothing == bookinstances = shadow

\* C30 witness: after a successful return of a copy, a renewal of it with an
\* invalid date was answered with the form's error.
C30_Witness ==
    /\ Handled("renew") /\ request.method = "POST"
    /\ request.pk = "uuid-1"
    /\ returned = {"uuid-1"}
    /\ response.status = 200
    /\ response.error # ""
    /\ bookinstances["uuid-1"].due_back # NoDate

====
